---- MODULE Spec2Model ----
(***************************************************************************)
(* Model of the "Odd One Out" memory game (my-react-app/src/App.js).       *)
(*                                                                         *)
(* The React component's useState cells are the variables; every event     *)
(* handler, timer callback and the useEffect that follows the commit of a  *)
(* handler are one action.  Math.random() is a nondeterministic choice.    *)
(* Array indices are 0-based as in the source; a TLA+ sequence s holds the *)
(* JavaScript element a[i] at s[i + 1].                                    *)
(***************************************************************************)
EXTENDS Integers, Sequences, FiniteSets, TLC

VARIABLES
    gameState,              \* App.js:5
    difficulty,             \* App.js:6
    numTiles,               \* App.js:7
    originalGridNumbers,    \* App.js:8
    currentGridNumbers,     \* App.js:9
    preparedRecallNumbers,  \* App.js:10
    changedTileIndex,       \* App.js:11
    selectedTileIndex,      \* App.js:12
    roundScore,             \* App.js:13
    totalScore,             \* App.js:14
    feedbackMessage,        \* App.js:15
    showModal,              \* App.js:16
    modalMessage,           \* App.js:17
    modalActions,           \* App.js:18
    countdown,              \* App.js:19
    memorizeTimer,          \* App.js:104  TRUE while the setTimeout handle is outstanding
    countdownInterval,      \* App.js:105  TRUE while the setInterval handle is outstanding
    closurePrepared,        \* App.js:129  preparedRecallNumbers as captured by the effect's closure
    pendingTimeouts,        \* App.js:125  the timeouts the browser holds for this component
    pendingIntervals,       \* App.js:115  the intervals the browser holds for this component
    \* locals of one call of setupOddOneOutRound, used when the call is run step by step
    rpc,                    \* position inside setupOddOneOutRound
    count,                  \* App.js:41   the argument
    initialNumbers,         \* App.js:46
    originalIndexToChange,  \* App.js:51
    newChangedValue,        \* App.js:53
    finalRecallNumbers      \* App.js:50

sessionVars == <<gameState, difficulty, numTiles, selectedTileIndex, roundScore, totalScore>>
roundVars   == <<originalGridNumbers, currentGridNumbers, preparedRecallNumbers, changedTileIndex>>
uiVars      == <<feedbackMessage, showModal, modalMessage, modalActions>>
timerVars   == <<countdown, memorizeTimer, countdownInterval, closurePrepared,
                 pendingTimeouts, pendingIntervals>>
localVars   == <<rpc, count, initialNumbers, originalIndexToChange, newChangedValue, finalRecallNumbers>>
vars        == <<sessionVars, roundVars, uiVars, timerVars, localVars>>

----------------------------------------------------------------------------
(* Bounds.                                                                 *)

\* The number pool 1..NUMBER_POOL_MAX.  The source uses 100 (App.js:30); the
\* model keeps the pool small so that every draw and every shuffle can be
\* enumerated.
NUMBER_POOL_MAX == 3

\* setupOddOneOutRound is exercised on its own with counts up to
\* NUMBER_POOL_MAX + OverDraw, so that a count above the pool happens.
OverDraw == 1

\* Try Again stays reachable after an overall win, so totalScore has no upper
\* limit in the program; a new round is started only below this score.
MaxTotalScore == 120

----------------------------------------------------------------------------
(* Program constants.                                                      *)

null == -1                      \* JavaScript null in an index or number cell
none == "null"                  \* JavaScript null in the difficulty cell

BASE_SCORE_PER_CORRECT == 20
TOTAL_SCORE_TO_WIN == 100

Difficulties == {"easy", "medium", "hard"}

\* The tile counts offered per difficulty.  The source offers 4..8, 8..12 and
\* 12..16 out of a pool of 100; the model keeps three sets, neighbours sharing
\* an end point, all below the pool size.
countOptions(d) ==
    CASE d = "easy"   -> {1}
      [] d = "medium" -> {1, 2}
      [] d = "hard"   -> {2}
      [] OTHER        -> {}

memorizeTime(d) == IF d = "easy" THEN 4000 ELSE IF d = "medium" THEN 8000 ELSE 12000

EndStates == {"round_win", "overall_win", "game_over"}
GridStates == {"memorize_original", "odd_one_out_recall"} \cup EndStates

----------------------------------------------------------------------------
(* Arrays.                                                                 *)

Min(a, b) == IF a <= b THEN a ELSE b

Range(s) == {s[i] : i \in 1..Len(s)}

\* Array.prototype.includes
includes(s, v) == v \in Range(s)

\* Array.prototype.indexOf: the first position holding v, or -1
indexOf(s, v) ==
    IF includes(s, v)
    THEN (CHOOSE i \in 1..Len(s) : s[i] = v /\ \A j \in 1..(i - 1) : s[j] # v) - 1
    ELSE -1

\* arrayStore with the value pushed instead of stored at i
arrayStorePush(s, i, v) == Append(s, v)

\* a[i] = v on a copy of the array; a store one past the end extends the array
arrayStore(s, i, v) ==
    IF i < Len(s) THEN [s EXCEPT ![i + 1] = v] ELSE Append(s, v)

\* array.sort(() => 0.5 - Math.random()): the comparator answers at random,
\* so the result is some rearrangement of the elements
sortRandom(s) ==
    {[i \in 1..Len(s) |-> s[p[i]]] : p \in Permutations(1..Len(s))}

\* Math.floor(Math.random() * n)
randomBelow(n) == IF n = 0 THEN {0} ELSE 0..(n - 1)

----------------------------------------------------------------------------
(* generateUniqueNumbers, App.js:33-38                                     *)

allPossibleNumbers == [i \in 1..NUMBER_POOL_MAX |-> i]

\* generateUniqueNumbers with every number drawn independently
generateNumbersWithRepeats(c) ==
    LET actualCount == Min(c, NUMBER_POOL_MAX)
    IN  [1..actualCount -> 1..NUMBER_POOL_MAX]

generateUniqueNumbers(c) ==
    LET actualCount == Min(c, NUMBER_POOL_MAX)
    IN  {SubSeq(shuffledNumbers, 1, actualCount) :
            shuffledNumbers \in sortRandom(allPossibleNumbers)}

----------------------------------------------------------------------------
(* setupOddOneOutRound, App.js:41-75                                       *)

\* loopContinues comparing with the replaced number only
loopContinuesOnlyReplaced(initial, idx, v) ==
    idx < Len(initial) /\ v = initial[idx + 1]

\* the condition of the do-while loop, App.js:58
loopContinues(initial, idx, v) ==
    includes(initial, v) \/ (idx < Len(initial) /\ v = initial[idx + 1])

\* randomValue without the factor: Math.floor(Math.random()) + 1
randomValueOne == {1}

\* Math.floor(Math.random() * NUMBER_POOL_MAX) + 1, App.js:57
randomValue == 1..NUMBER_POOL_MAX

\* the values the loop can leave with
changedValues(initial, idx) ==
    {v \in randomValue : ~loopContinues(initial, idx, v)}

\* the outcomes of lines 64-71 for a chosen index and value
shuffledRounds(initial, idx, v) ==
    {[original |-> initial,
      prepared |-> shuffled,
      changed  |-> indexOf(shuffled, v)] :
        shuffled \in sortRandom(arrayStore(initial, idx, v))}

\* every round one complete call can produce
setupOddOneOutRound(c) ==
    UNION {UNION {UNION {shuffledRounds(initial, idx, v) :
                            v \in changedValues(initial, idx)} :
                     idx \in randomBelow(Len(initial))} :
              initial \in generateUniqueNumbers(c)}

\* storeRound without the setSelectedTileIndex(null) of line 43
storeRoundKeepSelection(r) ==
    /\ roundScore' = 0
    /\ UNCHANGED selectedTileIndex
    /\ originalGridNumbers' = r.original
    /\ preparedRecallNumbers' = r.prepared
    /\ changedTileIndex' = r.changed
    /\ currentGridNumbers' = r.original

\* the state updates of one call, lines 42, 43, 47, 70, 71, 74
storeRound(r) ==
    /\ roundScore' = 0
    /\ selectedTileIndex' = null
    /\ originalGridNumbers' = r.original
    /\ preparedRecallNumbers' = r.prepared
    /\ changedTileIndex' = r.changed
    /\ currentGridNumbers' = r.original

----------------------------------------------------------------------------
(* Messages.  A message is the sequence of the pieces it is concatenated   *)
(* from, so that two texts are equal exactly when the pieces are.          *)

text(t) == <<t>>
textWith(t, n) == <<t, n>>

homeAction == "Home"                \* App.js:155
tryAgainAction == "Try Again"       \* App.js:156
nextRoundAction == "Next Round"     \* App.js:157

----------------------------------------------------------------------------
(* The useEffect of App.js:103-138.  React runs the cleanup of the last    *)
(* effect and then the effect again after every commit in which gameState, *)
(* difficulty or preparedRecallNumbers changed.                            *)

\* clearTimeout and clearInterval, App.js:118, 126, 135, 136: the browser
\* drops the timer the handle names; a handle that is undefined or whose
\* timer is gone drops nothing
afterClear(handleLive, pending) == IF handleLive THEN pending - 1 ELSE pending

\* lines 134-137, then the body with gameState # 'memorize_original'
effectOutsideMemorize(depsChanged) ==
    IF depsChanged
    THEN /\ memorizeTimer' = FALSE
         /\ countdownInterval' = FALSE
         /\ closurePrepared' = <<>>
         /\ pendingTimeouts' = afterClear(memorizeTimer, pendingTimeouts)
         /\ pendingIntervals' = afterClear(countdownInterval, pendingIntervals)
         /\ UNCHANGED countdown
    ELSE UNCHANGED timerVars

\* effectMemorize without the setTimeout of line 125
effectMemorizeNoTimeout(d, prepared) ==
    /\ countdown' = memorizeTime(d) \div 1000
    /\ feedbackMessage' = text("Observe the numbers!")
    /\ modalActions' = <<>>
    /\ showModal' = FALSE
    /\ countdownInterval' = TRUE
    /\ memorizeTimer' = FALSE
    /\ closurePrepared' = prepared
    /\ pendingTimeouts' = afterClear(memorizeTimer, pendingTimeouts)
    /\ pendingIntervals' = afterClear(countdownInterval, pendingIntervals) + 1

\* effectMemorize with the closure holding the array of the render before
effectMemorizeStaleClosure(d, prepared) ==
    /\ countdown' = memorizeTime(d) \div 1000
    /\ feedbackMessage' = text("Observe the numbers!")
    /\ modalActions' = <<>>
    /\ showModal' = FALSE
    /\ countdownInterval' = TRUE
    /\ memorizeTimer' = TRUE
    /\ closurePrepared' = preparedRecallNumbers
    /\ pendingTimeouts' = afterClear(memorizeTimer, pendingTimeouts) + 1
    /\ pendingIntervals' = afterClear(countdownInterval, pendingIntervals) + 1

\* effectMemorize without the cleanup of lines 134-137 and with the body run
\* twice, as React's development mode runs an effect
effectMemorizeTwice(d, prepared) ==
    /\ countdown' = memorizeTime(d) \div 1000
    /\ feedbackMessage' = text("Observe the numbers!")
    /\ modalActions' = <<>>
    /\ showModal' = FALSE
    /\ countdownInterval' = TRUE
    /\ memorizeTimer' = TRUE
    /\ closurePrepared' = prepared
    /\ pendingTimeouts' = pendingTimeouts + 2
    /\ pendingIntervals' = pendingIntervals + 2

\* lines 134-137, then lines 107-132 with gameState = 'memorize_original'
effectMemorize(d, prepared) ==
    /\ countdown' = memorizeTime(d) \div 1000
    /\ feedbackMessage' = text("Observe the numbers!")
    /\ modalActions' = <<>>
    /\ showModal' = FALSE
    /\ countdownInterval' = TRUE
    /\ memorizeTimer' = TRUE
    /\ closurePrepared' = prepared
    /\ pendingTimeouts' = afterClear(memorizeTimer, pendingTimeouts) + 1
    /\ pendingIntervals' = afterClear(countdownInterval, pendingIntervals) + 1

----------------------------------------------------------------------------
(* What the page offers, from the JSX of App.js:267-417.                   *)

startOffered == gameState = "start"                         \* line 284
difficultyOffered == gameState = "difficulty"               \* line 298
numTilesOffered == gameState = "number_selection"           \* line 326
gridOffered == gameState \in GridStates                     \* line 362
submitOffered == gameState = "odd_one_out_recall"           \* line 371
pageHomeOffered == gameState \in EndStates                  \* lines 379-396
pageNextOffered == gameState \in EndStates                  \* lines 379, 397-411
modalOffers(a) == showModal /\ includes(modalActions, a)    \* lines 245-265
homeOffered == pageHomeOffered \/ modalOffers(homeAction)
nextOffered ==
    pageNextOffered \/ modalOffers(nextRoundAction) \/ modalOffers(tryAgainAction)

----------------------------------------------------------------------------
(* Event handlers.                                                         *)

\* the Start Game button, App.js:290
startGame ==
    /\ startOffered
    /\ gameState' = "difficulty"
    /\ effectOutsideMemorize(TRUE)
    /\ UNCHANGED <<difficulty, numTiles, selectedTileIndex, roundScore, totalScore>>
    /\ UNCHANGED <<roundVars, uiVars, localVars>>

\* App.js:78-82
handleDifficultySelect(selectedDifficulty) ==
    /\ difficultyOffered
    /\ difficulty' = selectedDifficulty
    /\ totalScore' = 0
    /\ gameState' = "number_selection"
    /\ effectOutsideMemorize(TRUE)
    /\ UNCHANGED <<numTiles, selectedTileIndex, roundScore>>
    /\ UNCHANGED <<roundVars, uiVars, localVars>>

\* App.js:85-90
handleNumTilesSelect(c) ==
    /\ numTilesOffered
    /\ c \in countOptions(difficulty)
    /\ numTiles' = c
    /\ \E r \in setupOddOneOutRound(c) :
          /\ storeRound(r)
          /\ effectMemorize(difficulty, r.prepared)
    /\ gameState' = "memorize_original"
    /\ UNCHANGED <<difficulty, totalScore, modalMessage, localVars>>

\* App.js:93-100
handleNextRoundOrTryAgain ==
    /\ nextOffered
    /\ totalScore < MaxTotalScore
    /\ IF numTiles # null
       THEN /\ \E r \in setupOddOneOutRound(numTiles) :
                  /\ storeRound(r)
                  /\ effectMemorize(difficulty, r.prepared)
            /\ gameState' = "memorize_original"
            /\ UNCHANGED <<difficulty, numTiles, totalScore, modalMessage>>
       ELSE /\ showModal' = FALSE
            /\ UNCHANGED <<sessionVars, roundVars, timerVars>>
            /\ UNCHANGED <<feedbackMessage, modalMessage, modalActions>>
    /\ UNCHANGED localVars

\* the setInterval callback, App.js:115-123
countdownTick ==
    /\ countdownInterval
    /\ IF countdown <= 1
       THEN /\ countdownInterval' = FALSE
            /\ pendingIntervals' = afterClear(countdownInterval, pendingIntervals)
            /\ countdown' = 0
       ELSE /\ countdown' = countdown - 1
            /\ UNCHANGED <<countdownInterval, pendingIntervals>>
    /\ UNCHANGED <<memorizeTimer, closurePrepared, pendingTimeouts>>
    /\ UNCHANGED <<sessionVars, roundVars, uiVars, localVars>>

\* memorizeTimeout with the interval left running: no clearInterval in the
\* callback and none after the commit
memorizeTimeoutKeepsInterval ==
    /\ memorizeTimer
    /\ countdown <= 1
    /\ feedbackMessage' = text("Find the changed number!")
    /\ currentGridNumbers' = closurePrepared
    /\ gameState' = "odd_one_out_recall"
    /\ countdown' = 0
    /\ memorizeTimer' = FALSE
    /\ pendingTimeouts' = pendingTimeouts - 1
    /\ closurePrepared' = <<>>
    /\ UNCHANGED <<countdownInterval, pendingIntervals>>
    /\ UNCHANGED <<difficulty, numTiles, selectedTileIndex, roundScore, totalScore>>
    /\ UNCHANGED <<originalGridNumbers, preparedRecallNumbers, changedTileIndex>>
    /\ UNCHANGED <<showModal, modalMessage, modalActions, localVars>>

\* the setTimeout callback, App.js:125-132, and lines 134-137 after its
\* commit.  The timeout of n seconds is due when the interval of one second
\* has been due n times: it follows the first n - 1 ticks, and it runs before
\* or after the n-th.
memorizeTimeout ==
    /\ memorizeTimer
    /\ countdown <= 1
    /\ countdownInterval' = FALSE
    /\ pendingIntervals' = afterClear(countdownInterval, pendingIntervals)
    /\ feedbackMessage' = text("Find the changed number!")
    /\ currentGridNumbers' = closurePrepared
    /\ gameState' = "odd_one_out_recall"
    /\ countdown' = 0
    /\ memorizeTimer' = FALSE
    /\ pendingTimeouts' = pendingTimeouts - 1
    /\ closurePrepared' = <<>>
    /\ UNCHANGED <<difficulty, numTiles, selectedTileIndex, roundScore, totalScore>>
    /\ UNCHANGED <<originalGridNumbers, preparedRecallNumbers, changedTileIndex>>
    /\ UNCHANGED <<showModal, modalMessage, modalActions, localVars>>

\* tileClickAccepted with only the memorize phase excluded
tileClickAcceptedWide(gs) == gs # "memorize_original"

\* the condition of App.js:143
tileClickAccepted(gs) == gs = "odd_one_out_recall"

\* App.js:142-146, called from the tiles rendered at lines 192-226
handleTileClick(index) ==
    /\ gridOffered
    /\ index \in 0..(numTiles - 1)
    /\ IF tileClickAccepted(gameState)
       THEN selectedTileIndex' = index
       ELSE UNCHANGED selectedTileIndex
    /\ UNCHANGED <<gameState, difficulty, numTiles, roundScore, totalScore>>
    /\ UNCHANGED <<roundVars, uiVars, timerVars, localVars>>

\* noSelection with the check left out
noSelectionNever(selected) == FALSE

\* the condition of App.js:150
noSelection(selected) == selected = null

\* isCorrect accepting every tile up to the changed one
isCorrectUpTo(selected, changed) == selected <= changed

\* the condition of App.js:159
isCorrect(selected, changed) == selected = changed

\* newTotalOf with the previous total forgotten
newTotalOfFresh(prevTotal) == BASE_SCORE_PER_CORRECT

\* App.js:162
newTotalOf(prevTotal) == prevTotal + BASE_SCORE_PER_CORRECT

\* hasWon with a strict comparison
hasWonStrict(newTotal) == newTotal > TOTAL_SCORE_TO_WIN

\* the condition of App.js:163
hasWon(newTotal) == newTotal >= TOTAL_SCORE_TO_WIN

\* App.js:149-185
handleSubmitRecall ==
    /\ submitOffered
    /\ IF noSelection(selectedTileIndex)
       THEN /\ feedbackMessage' = text("Please select a tile!")
            /\ UNCHANGED <<sessionVars, timerVars>>
            /\ UNCHANGED <<showModal, modalMessage, modalActions>>
       ELSE IF isCorrect(selectedTileIndex, changedTileIndex)
       THEN LET newTotal == newTotalOf(totalScore)
            IN  /\ roundScore' = BASE_SCORE_PER_CORRECT
                /\ IF hasWon(newTotal)
                   THEN /\ gameState' = "overall_win"
                        /\ feedbackMessage' = text("You are the CHAMPION!")
                        /\ modalMessage' =
                              textWith("You are the CHAMPION! Final Score: ", newTotal)
                        /\ modalActions' = <<homeAction>>
                   ELSE /\ gameState' = "round_win"
                        /\ feedbackMessage' = text("Round Complete!")
                        /\ modalMessage' =
                              <<"Round Complete! Total Score: ", newTotal, ".">>
                        /\ modalActions' = <<homeAction, nextRoundAction>>
                /\ showModal' = TRUE
                /\ totalScore' = newTotal
                /\ effectOutsideMemorize(TRUE)
                /\ UNCHANGED <<difficulty, numTiles, selectedTileIndex>>
       ELSE /\ roundScore' = 0
            /\ gameState' = "game_over"
            /\ feedbackMessage' =
                  textWith("Wrong! The changed number was: ",
                           currentGridNumbers[changedTileIndex + 1])
            /\ modalMessage' =
                  textWith("Game Over! The changed tile was: ",
                           currentGridNumbers[changedTileIndex + 1])
            /\ modalActions' = <<homeAction, tryAgainAction>>
            /\ showModal' = TRUE
            /\ effectOutsideMemorize(TRUE)
            /\ UNCHANGED <<difficulty, numTiles, selectedTileIndex, totalScore>>
    /\ UNCHANGED <<roundVars, localVars>>

\* modalHome without the setSelectedTileIndex(null)
modalHomeKeepSelection ==
    /\ modalOffers(homeAction)
    /\ gameState' = "start"
    /\ showModal' = FALSE
    /\ totalScore' = 0
    /\ effectOutsideMemorize(gameState # "start")
    /\ UNCHANGED <<difficulty, numTiles, roundScore, selectedTileIndex>>
    /\ UNCHANGED <<feedbackMessage, modalMessage, modalActions>>
    /\ UNCHANGED <<roundVars, localVars>>

\* the onClick of homeAction, App.js:155, reached through the modal
modalHome ==
    /\ modalOffers(homeAction)
    /\ gameState' = "start"
    /\ showModal' = FALSE
    /\ selectedTileIndex' = null
    /\ totalScore' = 0
    /\ effectOutsideMemorize(gameState # "start")
    /\ UNCHANGED <<difficulty, numTiles, roundScore>>
    /\ UNCHANGED <<feedbackMessage, modalMessage, modalActions>>
    /\ UNCHANGED <<roundVars, localVars>>

\* pageHome with the score left as it is
pageHomeKeepScore ==
    /\ pageHomeOffered
    /\ gameState' = "start"
    /\ selectedTileIndex' = null
    /\ effectOutsideMemorize(gameState # "start")
    /\ UNCHANGED <<difficulty, numTiles, roundScore, totalScore>>
    /\ UNCHANGED <<roundVars, uiVars, localVars>>

\* the New Game and Home buttons of the page, App.js:382-396
pageHome ==
    /\ pageHomeOffered
    /\ gameState' = "start"
    /\ selectedTileIndex' = null
    /\ totalScore' = 0
    /\ effectOutsideMemorize(gameState # "start")
    /\ UNCHANGED <<difficulty, numTiles, roundScore>>
    /\ UNCHANGED <<roundVars, uiVars, localVars>>

----------------------------------------------------------------------------
(* The game.                                                               *)

idleLocals ==
    /\ rpc = "idle"
    /\ count = null
    /\ initialNumbers = <<>>
    /\ originalIndexToChange = null
    /\ newChangedValue = null
    /\ finalRecallNumbers = <<>>

\* the useState initial values, App.js:5-19
initialState ==
    /\ gameState = "start"
    /\ difficulty = none
    /\ numTiles = null
    /\ originalGridNumbers = <<>>
    /\ currentGridNumbers = <<>>
    /\ preparedRecallNumbers = <<>>
    /\ changedTileIndex = null
    /\ selectedTileIndex = null
    /\ roundScore = 0
    /\ totalScore = 0
    /\ feedbackMessage = text("")
    /\ showModal = FALSE
    /\ modalMessage = text("")
    /\ modalActions = <<>>
    /\ countdown = 0
    /\ memorizeTimer = FALSE
    /\ countdownInterval = FALSE
    /\ pendingTimeouts = 0
    /\ pendingIntervals = 0
    /\ closurePrepared = <<>>

Init == initialState /\ idleLocals

Next ==
    \/ startGame
    \/ \E d \in Difficulties : handleDifficultySelect(d)
    \/ \E c \in 1..NUMBER_POOL_MAX : handleNumTilesSelect(c)
    \/ handleNextRoundOrTryAgain
    \/ countdownTick
    \/ memorizeTimeout
    \/ \E i \in 0..(NUMBER_POOL_MAX - 1) : handleTileClick(i)
    \/ handleSubmitRecall
    \/ modalHome
    \/ pageHome

Spec == Init /\ [][Next]_vars

\* The browser runs a due timer callback: the two callbacks are the only
\* steps that need no player.
FairSpec == Spec /\ WF_vars(countdownTick) /\ WF_vars(memorizeTimeout)

----------------------------------------------------------------------------
(* One call of setupOddOneOutRound, step by step, for every count.         *)

\* App.js:42-51
setupDraw ==
    /\ rpc = "call"
    /\ roundScore' = 0
    /\ selectedTileIndex' = null
    /\ \E drawn \in generateUniqueNumbers(count) :
          /\ initialNumbers' = drawn
          /\ originalGridNumbers' = drawn
          /\ finalRecallNumbers' = drawn
          /\ \E idx \in randomBelow(Len(drawn)) : originalIndexToChange' = idx
    /\ rpc' = "loop"
    /\ UNCHANGED <<count, newChangedValue>>
    /\ UNCHANGED <<gameState, difficulty, numTiles, totalScore>>
    /\ UNCHANGED <<currentGridNumbers, preparedRecallNumbers, changedTileIndex>>
    /\ UNCHANGED <<uiVars, timerVars>>

\* one pass of the do-while loop, App.js:54-58
setupSample ==
    /\ rpc = "loop"
    /\ \E v \in randomValue :
          /\ newChangedValue' = v
          /\ rpc' = IF loopContinues(initialNumbers, originalIndexToChange, v)
                    THEN "loop" ELSE "store"
    /\ UNCHANGED <<count, initialNumbers, originalIndexToChange, finalRecallNumbers>>
    /\ UNCHANGED <<sessionVars, roundVars, uiVars, timerVars>>

\* App.js:61-74
setupStore ==
    /\ rpc = "store"
    /\ \E r \in shuffledRounds(initialNumbers, originalIndexToChange, newChangedValue) :
          /\ finalRecallNumbers' = r.prepared
          /\ preparedRecallNumbers' = r.prepared
          /\ changedTileIndex' = r.changed
          /\ currentGridNumbers' = r.original
    /\ rpc' = "done"
    /\ UNCHANGED <<count, initialNumbers, originalIndexToChange, newChangedValue>>
    /\ UNCHANGED <<sessionVars, originalGridNumbers, uiVars, timerVars>>

RoundInit ==
    /\ initialState
    /\ rpc = "call"
    /\ count \in 1..(NUMBER_POOL_MAX + OverDraw)
    /\ initialNumbers = <<>>
    /\ originalIndexToChange = null
    /\ newChangedValue = null
    /\ finalRecallNumbers = <<>>

RoundNext == setupDraw \/ setupSample \/ setupStore

RoundSpec == RoundInit /\ [][RoundNext]_vars

\* the pass of the loop that draws a value the loop leaves with
setupSampleExit == setupSample /\ rpc' = "store"

\* Math.random() is fair: a value that can be drawn at every pass is drawn at
\* some pass; the straight-line code before and after the loop runs on.
FairRoundSpec ==
    /\ RoundSpec
    /\ WF_vars(setupDraw)
    /\ WF_vars(setupSampleExit)
    /\ WF_vars(setupStore)

----------------------------------------------------------------------------
(* Properties of the submission, App.js:149-185.                           *)

correctSubmit ==
    /\ handleSubmitRecall
    /\ selectedTileIndex # null
    /\ selectedTileIndex = changedTileIndex

wrongSubmit ==
    /\ handleSubmitRecall
    /\ selectedTileIndex # null
    /\ selectedTileIndex # changedTileIndex

emptySubmit ==
    /\ handleSubmitRecall
    /\ selectedTileIndex = null

\* C1: a submission of the changed tile adds exactly 20 to totalScore, so
\* the score never goes down, whatever it was before.
C1_CorrectSubmitAdds20 ==
    [][correctSubmit =>
          /\ totalScore' = totalScore + 20
          /\ totalScore' > totalScore]_vars

\* a correct submission on top of earlier wins and a loss in between
C1_Witness ==
    /\ gameState = "round_win"
    /\ totalScore = 80
    /\ roundScore = BASE_SCORE_PER_CORRECT
    /\ selectedTileIndex = changedTileIndex

\* C2: a correct submission that brings totalScore to 100 or more goes to
\* overall_win and never to round_win; so round_win is only seen below 100
\* and overall_win only from 100 on.
C2_WinStateMatchesScore ==
    /\ [][(correctSubmit /\ totalScore' >= 100) => gameState' = "overall_win"]_vars
    /\ [](gameState = "round_win" => totalScore < 100)
    /\ [](gameState = "overall_win" => totalScore >= 100)

\* the submission that reaches the threshold exactly
C2_Witness ==
    /\ gameState = "overall_win"
    /\ totalScore = 100
    /\ selectedTileIndex = changedTileIndex

\* C3: a submission of a tile other than the changed one goes to game_over
\* and leaves totalScore as it was.
C3_WrongSubmitGameOver ==
    [][wrongSubmit =>
          /\ gameState' = "game_over"
          /\ totalScore' = totalScore]_vars

\* a wrong submission after points were won
C3_Witness ==
    /\ gameState = "game_over"
    /\ totalScore = 40
    /\ selectedTileIndex # null
    /\ selectedTileIndex # changedTileIndex

----------------------------------------------------------------------------
(* Properties of the round, App.js:33-75, over one call run step by step.  *)

roundBuilt == rpc = "done"

occurrences(s, x) == Cardinality({i \in 1..Len(s) : s[i] = x})

distinct(s) == \A i, j \in 1..Len(s) : i # j => s[i] # s[j]

oddPositions == {i \in 1..Len(preparedRecallNumbers) :
                    ~includes(originalGridNumbers, preparedRecallNumbers[i])}

\* C4: in a built round the changed value is not among the original
\* numbers, the recall layout holds exactly one value that the original does
\* not, that value is at changedTileIndex, and changedTileIndex is a position
\* of the layout.
C4_OneOddValueAtChangedIndex ==
    roundBuilt =>
        /\ ~includes(originalGridNumbers, newChangedValue)
        /\ changedTileIndex \in 0..(Len(preparedRecallNumbers) - 1)
        /\ oddPositions = {changedTileIndex + 1}
        /\ preparedRecallNumbers[changedTileIndex + 1] = newChangedValue

\* a round of two tiles whose changed tile moved in the shuffle
C4_Witness ==
    /\ roundBuilt
    /\ Len(originalGridNumbers) = 2
    /\ changedTileIndex # originalIndexToChange
    /\ preparedRecallNumbers[changedTileIndex + 1] = newChangedValue

\* C5: the recall layout is as long as the original and holds the same
\* numbers as often, but for the replaced number, which is gone, and the
\* changed value, which is new.
C5_PermutationWithOneReplaced ==
    roundBuilt =>
        /\ Len(preparedRecallNumbers) = Len(originalGridNumbers)
        /\ \A x \in 1..NUMBER_POOL_MAX :
              occurrences(preparedRecallNumbers, x) =
                  occurrences(originalGridNumbers, x)
                  - (IF x = originalGridNumbers[originalIndexToChange + 1] THEN 1 ELSE 0)
                  + (IF x = newChangedValue THEN 1 ELSE 0)

\* a round of two tiles that the shuffle did rearrange
C5_Witness ==
    /\ roundBuilt
    /\ Len(originalGridNumbers) = 2
    /\ preparedRecallNumbers #
          arrayStore(originalGridNumbers, originalIndexToChange, newChangedValue)

\* C6: the draw has min(count, NUMBER_POOL_MAX) numbers, no two the same,
\* each in 1..NUMBER_POOL_MAX; a count above the pool gives the whole pool.
C6_DrawIsUniqueAndCapped ==
    rpc # "call" =>
        /\ Len(originalGridNumbers) = Min(count, NUMBER_POOL_MAX)
        /\ distinct(originalGridNumbers)
        /\ \A i \in 1..Len(originalGridNumbers) :
              originalGridNumbers[i] \in 1..NUMBER_POOL_MAX

\* a draw of more numbers than the pool holds
C6_Witness ==
    /\ rpc # "call"
    /\ count > NUMBER_POOL_MAX
    /\ Len(originalGridNumbers) = NUMBER_POOL_MAX

----------------------------------------------------------------------------
(* Properties of the home action, App.js:155 and 382-396.                  *)

homeStep == modalHome \/ pageHome

homeResult ==
    /\ gameState' = "start"
    /\ totalScore' = 0
    /\ selectedTileIndex' = null

atHome ==
    /\ gameState = "start"
    /\ totalScore = 0
    /\ selectedTileIndex = null

\* C7 as claimed: every state accepts a home action, which leads to start
\* with totalScore 0 and no selection, and a second home changes nothing.
C7_HomeFromAnyState ==
    /\ []homeOffered
    /\ [][homeStep => homeResult]_vars
    /\ [][(homeStep /\ atHome) => UNCHANGED sessionVars]_vars

\* C7 as amended: the end states always offer a home action; wherever one is
\* offered it leads to start with totalScore 0 and no selection, and a home
\* action taken at home leaves the session as it is.
C7_HomeWhereOffered ==
    /\ [](gameState \in EndStates => homeOffered)
    /\ [][homeStep => homeResult]_vars
    /\ [][(homeStep /\ atHome) => UNCHANGED sessionVars]_vars

\* at home after a won round: the round's score is still on record
C7_Witness ==
    /\ atHome
    /\ roundScore = BASE_SCORE_PER_CORRECT
    /\ ~showModal

----------------------------------------------------------------------------
(* Properties of the rejected inputs, App.js:142-153.                      *)

\* C8: a submission without a selection changes the feedback message and
\* nothing else; the game stays in the recall phase.
C8_EmptySubmitOnlyFeedback ==
    [][emptySubmit =>
          /\ feedbackMessage' = text("Please select a tile!")
          /\ gameState' = "odd_one_out_recall"
          /\ UNCHANGED <<sessionVars, roundVars, timerVars, localVars>>
          /\ UNCHANGED <<showModal, modalMessage, modalActions>>]_vars

\* the recall phase after a rejected submission
C8_Witness ==
    /\ gameState = "odd_one_out_recall"
    /\ selectedTileIndex = null
    /\ feedbackMessage = text("Please select a tile!")

tileClick == \E i \in 0..(NUMBER_POOL_MAX - 1) : handleTileClick(i)

\* C9: a tile click outside the recall phase changes nothing, and a tile
\* becomes the selection only in the recall phase.
C9_TileClickOnlyInRecall ==
    /\ [][(tileClick /\ gameState # "odd_one_out_recall") => UNCHANGED vars]_vars
    /\ [][(selectedTileIndex' # selectedTileIndex /\ selectedTileIndex' # null)
             => gameState = "odd_one_out_recall"]_vars

\* a selection made in the recall phase, changed by a second click
C9_Witness ==
    /\ gameState = "odd_one_out_recall"
    /\ selectedTileIndex = 1
    /\ numTiles = 2

----------------------------------------------------------------------------
(* Properties of the memorize timer, App.js:103-138.                       *)

\* C10: with the timer callbacks run when due, every memorize phase is
\* followed by the recall phase; the phase is left by the timeout callback
\* only, the callback is spent once it ran, and a timeout is outstanding in
\* the memorize phase only, so it runs once per phase.
C10_MemorizeLeadsToRecallOnce ==
    /\ (gameState = "memorize_original") ~> (gameState = "odd_one_out_recall")
    /\ [][(gameState = "memorize_original" /\ gameState' # "memorize_original")
             => (memorizeTimeout /\ gameState' = "odd_one_out_recall")]_vars
    /\ [][memorizeTimeout => ~memorizeTimer']_vars
    /\ [](memorizeTimer <=> gameState = "memorize_original")

\* the recall phase of a later round, entered by the timeout
C10_Witness ==
    /\ gameState = "odd_one_out_recall"
    /\ totalScore = 20
    /\ ~memorizeTimer
    /\ ~countdownInterval
    /\ currentGridNumbers = preparedRecallNumbers

----------------------------------------------------------------------------
(* Properties of the end of a round, App.js:93-100 and 379-412.            *)

enterMemorize ==
    /\ gameState # "memorize_original"
    /\ gameState' = "memorize_original"

\* C11: overall_win is left for start only; a round is never started from
\* overall_win, where no Next Round or Try Again is offered.
C11_OverallWinOnlyToStart ==
    /\ [](gameState = "overall_win" => ~nextOffered)
    /\ [][gameState = "overall_win" => gameState' \in {"overall_win", "start"}]_vars
    /\ [][enterMemorize => gameState # "overall_win"]_vars

\* round_win and game_over offer Home, the tiles, whose clicks change
\* nothing there, and Next Round or Try Again: a step that changes the state
\* and does not go to start is a step of handleNextRoundOrTryAgain
nextFromRoundEnd ==
    /\ gameState \in {"round_win", "game_over"}
    /\ gameState' # "start"

\* C12: Next Round or Try Again in round_win or game_over builds a round of
\* as many tiles as the one before, clears the selection and the round
\* score, goes to the memorize phase and leaves totalScore and difficulty as
\* they were.
C12_NextRoundKeepsSession ==
    [][nextFromRoundEnd =>
          /\ numTiles' = numTiles
          /\ Len(originalGridNumbers') = numTiles
          /\ Len(preparedRecallNumbers') = numTiles
          /\ selectedTileIndex' = null
          /\ roundScore' = 0
          /\ gameState' = "memorize_original"
          /\ totalScore' = totalScore
          /\ difficulty' = difficulty]_vars

\* the memorize phase of a round that follows a won round
C12_Witness ==
    /\ gameState = "memorize_original"
    /\ totalScore = 20
    /\ selectedTileIndex = null
    /\ roundScore = 0
    /\ Len(originalGridNumbers) = numTiles

----------------------------------------------------------------------------
(* Properties of the session across rounds and play-throughs.              *)

\* C13: while a round is active the tile count is one of the counts offered
\* for the difficulty of the session.
C13_TileCountFitsDifficulty ==
    gameState \in GridStates => numTiles \in countOptions(difficulty)

\* C14 as claimed: a home action leaves the session at its initial values,
\* difficulty and tile count unset.
C14_HomeRestoresDefaults ==
    [][homeStep =>
          /\ gameState' = "start"
          /\ totalScore' = 0
          /\ selectedTileIndex' = null
          /\ difficulty' = none
          /\ numTiles' = null]_vars

\* C14 as amended: a home action sets the state to start, totalScore to 0
\* and the selection to none, and leaves difficulty and tile count at the
\* values of the play-through before.
C14_HomeResetsStateScoreSelection ==
    [][homeStep =>
          /\ gameState' = "start"
          /\ totalScore' = 0
          /\ selectedTileIndex' = null
          /\ difficulty' = difficulty
          /\ numTiles' = numTiles]_vars

\* at home after a lost round of a play-through with points
C14_Witness ==
    /\ gameState = "start"
    /\ totalScore = 0
    /\ selectedTileIndex = null
    /\ difficulty = "medium"
    /\ numTiles = 2
    /\ modalActions = <<homeAction, tryAgainAction>>

----------------------------------------------------------------------------
(* Properties of the timers across phases, App.js:103-138.                 *)

noTimerPending ==
    /\ pendingTimeouts = 0
    /\ pendingIntervals = 0
    /\ ~memorizeTimer
    /\ ~countdownInterval

\* C15: outside the memorize phase no timeout and no interval is pending,
\* so the timeout callback never runs after the phase was left.
C15_NoTimerOutsideMemorize ==
    /\ [](gameState # "memorize_original" => noTimerPending)
    /\ [][memorizeTimeout => gameState = "memorize_original"]_vars

\* a lost round: the phase was left and nothing is pending
C15_Witness ==
    /\ gameState = "game_over"
    /\ noTimerPending
    /\ countdown = 0

\* C16: the browser never holds more than one timeout and one interval of
\* the component; when a round starts the timers of the round before are
\* gone and one of each is started.
C16_AtMostOneTimer ==
    /\ [](pendingTimeouts <= 1 /\ pendingIntervals <= 1)
    /\ [][enterMemorize =>
             /\ pendingTimeouts = 0
             /\ pendingIntervals = 0
             /\ pendingTimeouts' = 1
             /\ pendingIntervals' = 1]_vars

\* the memorize phase of a third round
C16_Witness ==
    /\ gameState = "memorize_original"
    /\ totalScore = 40
    /\ pendingTimeouts = 1
    /\ pendingIntervals = 1

\* C17 as claimed: no tick runs once the timeout has run, and the timeout
\* does not run while a tick that would still lower the countdown is pending.
C17_CompletionAfterLastTick ==
    /\ [][countdownTick => memorizeTimer]_vars
    /\ [][memorizeTimeout => ~(countdownInterval /\ countdown > 0)]_vars

\* C17 as amended: no tick runs once the timeout has run, because the
\* timeout cancels the interval and sets the countdown to 0 itself; the last
\* tick may still be pending when it runs.
C17_NoTickAfterCompletion ==
    /\ [][countdownTick => (memorizeTimer /\ gameState = "memorize_original")]_vars
    /\ [][memorizeTimeout =>
             /\ ~countdownInterval'
             /\ pendingIntervals' = 0
             /\ countdown' = 0]_vars

\* the recall phase right after the timeout ran
C17_Witness ==
    /\ gameState = "odd_one_out_recall"
    /\ feedbackMessage = text("Find the changed number!")
    /\ selectedTileIndex = null
    /\ pendingIntervals = 0
    /\ countdown = 0

\* C18: the grid shows the original numbers during the memorize phase and
\* the recall layout of the current round from the recall phase on.
C18_GridShowsCurrentRound ==
    /\ gameState = "memorize_original" =>
          currentGridNumbers = originalGridNumbers
    /\ gameState \in {"odd_one_out_recall"} \cup EndStates =>
          currentGridNumbers = preparedRecallNumbers

\* the end of a second won round, the grid showing its recall layout
C18_Witness ==
    /\ gameState = "round_win"
    /\ totalScore = 40
    /\ currentGridNumbers = preparedRecallNumbers
    /\ currentGridNumbers # originalGridNumbers

----------------------------------------------------------------------------
(* Termination of setupOddOneOutRound, App.js:53-58.                       *)

\* the tile counts the page can pass, App.js:333-347
allowedCounts == UNION {countOptions(d) : d \in Difficulties}

noAcceptableValue == changedValues(initialNumbers, originalIndexToChange) = {}

\* C19: for every tile count the page offers, the loop always has a value it
\* can leave with, and with fair draws the call ends with such a value.
C19_RoundConstructionTerminates ==
    /\ []((rpc = "loop" /\ count \in allowedCounts) => ~noAcceptableValue)
    /\ (count \in allowedCounts) ~>
          (rpc = "done" /\ ~includes(originalGridNumbers, newChangedValue))

\* a finished call for the largest count the page offers
C19_Witness ==
    /\ rpc = "done"
    /\ count = 2
    /\ count \in allowedCounts
    /\ newChangedValue \in randomValue
    /\ ~includes(initialNumbers, newChangedValue)

\* C20: a call whose count leaves no number outside the original fails
\* before the loop, so the loop never runs without a value it can leave with.
C20_FailsLoudlyWithoutCandidate ==
    ~(rpc = "loop" /\ noAcceptableValue)

----------------------------------------------------------------------------
(* Properties of the score and the selection over whole sessions.          *)

\* C21: in every reachable state totalScore is one of 0, 20, 40, 60, 80 and
\* 100: a multiple of 20 that never exceeds the win threshold.
C21_ScoreWithinThreshold ==
    /\ totalScore % BASE_SCORE_PER_CORRECT = 0
    /\ totalScore >= 0
    /\ totalScore <= TOTAL_SCORE_TO_WIN

\* C22: the state agrees with the recorded selection: in round_win and
\* overall_win a tile is selected and it is the changed one, in game_over a
\* tile is selected and it is not the changed one, and in start, difficulty,
\* number_selection and the memorize phase nothing is selected.
C22_EndStateAgreesWithSelection ==
    /\ gameState \in {"round_win", "overall_win"} =>
          /\ selectedTileIndex # null
          /\ selectedTileIndex = changedTileIndex
    /\ gameState = "game_over" =>
          /\ selectedTileIndex # null
          /\ selectedTileIndex # changedTileIndex
    /\ gameState \in {"start", "difficulty", "number_selection",
                      "memorize_original"} =>
          selectedTileIndex = null

\* a lost round after a won one, the second tile picked for the first
C22_Witness ==
    /\ gameState = "game_over"
    /\ totalScore = 20
    /\ selectedTileIndex = 1
    /\ changedTileIndex = 0
    /\ showModal

====
